---- MODULE Spec2Model ----
(***************************************************************************)
(* Model of MessageBatcher (src/app/message_batcher.py): the per-user      *)
(* debounce/batching engine running on a single asyncio event loop.        *)
(*                                                                         *)
(* Time is kept by clocks: every sleeping timer task carries the seconds   *)
(* left of its asyncio.sleep(10), and every user carries the seconds since *)
(* their last add_message.  The event loop runs the callbacks that are     *)
(* ready before the clock moves on, so Tick is enabled only when the loop  *)
(* is idle.  The flush body (_wait_and_process lines 71-90) has no await   *)
(* that suspends, so it holds the loop from the timer's wake-up to         *)
(* _cleanup; the collaborator calls inside it are separate steps of the    *)
(* model, taken while `running` keeps every other callback out.            *)
(*                                                                         *)
(* The second part models the /chat endpoint of src/app/main.py with its   *)
(* background task process_and_respond.  A phone number is a sequence of   *)
(* tokens: single characters, and the prefix "whatsapp:" as one token.     *)
(*                                                                         *)
(* Nothing in src/ constructs a MessageBatcher or calls add_message, so    *)
(* the two parts share no step: SpecChat runs the endpoint, Spec the       *)
(* batcher.                                                                *)
(***************************************************************************)
EXTENDS Integers, Sequences, FiniteSets, TLC

\* ---------------------------------------------------------------- inputs
Users  == {1, 2}
Texts  == {"A", "B"}
\* The destination and the conversation a caller passes belong together:
\* (phone_number, conversation_id) pairs.
Callers == {<<"+595981", "conv_1">>, <<"+595982", "conv_2">>}
Replies == {"reply"}

\* Number of add_message calls explored (each creates one timer task).
MaxAdds == 2

\* asyncio.sleep(10) in _wait_and_process.
SLEEP_SECONDS == 10

\* Settings.debounce_time (config.py), "Message batching settings"; nothing in
\* message_batcher.py reads it.
debounce_time == 0

\* Written for a clock that has run past the debounce delay.
Expired == SLEEP_SECONDS + 1

VARIABLES
    pending_batches,  \* dict user_id -> batch (messages, phone_number, conversation_id, timer)
    tasks,            \* the timer tasks made by asyncio.create_task, in creation order
    running,          \* the flush body that holds the event loop, or NoFlush
    calls,            \* collaborator invocations of the flush in progress / last flush
    generated,        \* per user: what each flush passed to the Reply Generator
    accepted,         \* per user: every text add_message accepted, in arrival order
    supplied,         \* per user: the (phone_number, conversation_id) arguments of the
                      \* add_message calls that made and extended the user's batch
    gap,              \* per user: seconds since the last add_message (capped at Expired)
    within,           \* per user: every add_message so far came < SLEEP_SECONDS after the previous
    apart,            \* per user: every add_message so far came > SLEEP_SECONDS after the previous
    \* the web application of src/app/main.py
    db_users,         \* table users in id order: phone_number, openai_conversation_id
    db_messages,      \* table messages in insertion order
    conversations,    \* number of conversations the OpenAI client has created
    background,       \* the process_and_respond tasks that /chat has scheduled
    responses,        \* the HTTP status of every /chat request so far
    chat_calls        \* per process_and_respond task: its collaborator invocations

batcher_vars == <<pending_batches, tasks, running, calls, generated, accepted, supplied,
                  gap, within, apart>>

web_vars == <<db_users, db_messages, conversations, background, responses, chat_calls>>

vars == <<pending_batches, tasks, running, calls, generated, accepted, supplied,
          gap, within, apart,
          db_users, db_messages, conversations, background, responses, chat_calls>>

NoFlush == [stage |-> "idle"]

\* ------------------------------------------------------------ pure helpers

\* "".join(messages): the texts run together.
RECURSIVE JoinNoSeparator(_)
JoinNoSeparator(messages) ==
    IF messages = <<>> THEN ""
    ELSE messages[1] \o JoinNoSeparator(Tail(messages))

\* "\n".join(messages), line 110
RECURSIVE Join(_)
Join(messages) ==
    IF messages = <<>> THEN ""
    ELSE IF Len(messages) = 1 THEN messages[1]
    ELSE messages[1] \o "\n" \o Join(Tail(messages))

\* Task.done()
Done(task) == task.state \in {"cancelled", "finished"}

\* A cancel that misses a timer whose sleep has already elapsed.
CancelUnlessElapsed(task) ==
    IF Done(task) \/ (task.state = "sleeping" /\ task.remaining = 0) THEN task
    ELSE [task EXCEPT !.must_cancel = TRUE]

\* No cancel at all: the old timer is left running.
NoCancel(task) == task

\* lines 40-42, Task.cancel() on a task that is not done: it gets
\* CancelledError at its next step, whether it has not started, is inside the
\* sleep, or the sleep has elapsed and its wake-up is only queued.
Cancel(task) ==
    IF Done(task) THEN task ELSE [task EXCEPT !.must_cancel = TRUE]

\* asyncio.create_task(self._wait_and_process(user_id))
NewTask(user_id) ==
    [user |-> user_id, state |-> "scheduled", remaining |-> SLEEP_SECONDS,
     must_cancel |-> FALSE, ran |-> FALSE]

\* the dict literal of lines 49-53 with the timer of line 58
NewBatch(message, phone_number, conversation_id, timer) ==
    [messages |-> <<message>>, phone_number |-> phone_number,
     conversation_id |-> conversation_id, timer |-> timer]

\* An append that also takes the destination and context of the new call.
OverwriteBatch(batch, message, phone_number, conversation_id, timer) ==
    [messages |-> Append(batch.messages, message), phone_number |-> phone_number,
     conversation_id |-> conversation_id, timer |-> timer]

\* An insert at the front instead of an append.
PrependToBatch(batch, message, phone_number, conversation_id, timer) ==
    [batch EXCEPT !.messages = <<message>> \o @, !.timer = timer]

\* lines 45 and 58 on an existing batch: phone_number and conversation_id of
\* the call are not used.
AppendToBatch(batch, message, phone_number, conversation_id, timer) ==
    [batch EXCEPT !.messages = Append(@, message), !.timer = timer]

\* self.pending_batches[user_id] = batch
Put(map, user_id, batch) ==
    [v \in DOMAIN map \cup {user_id} |-> IF v = user_id THEN batch ELSE map[v]]

\* The value of a lookup that found nothing.
None == [none |-> TRUE]

\* A lookup that answers an empty batch for a missing key.
GetOrEmptyBatch(map, user_id) ==
    IF user_id \in DOMAIN map THEN map[user_id]
    ELSE [messages |-> << >>, phone_number |-> "", conversation_id |-> "", timer |-> 0]

\* line 71: self.pending_batches.get(user_id)
Get(map, user_id) ==
    IF user_id \in DOMAIN map THEN map[user_id] ELSE None

\* A cleanup that empties the whole map.
ClearAll(map, user_id) == << >>

\* A cleanup that leaves the entry in the map.
KeepBatch(map, user_id) == map

\* _cleanup: del self.pending_batches[user_id] when present
Cleanup(map, user_id) ==
    [v \in DOMAIN map \ {user_id} |-> map[v]]

\* A cancellation handled like a failure: the batch is cleaned up.
CleanupOnCancel(map, user_id) ==
    [v \in DOMAIN map \ {user_id} |-> map[v]]

\* lines 92-94: `except asyncio.CancelledError: raise` touches nothing.
OnCancelled(map, user_id) == map

\* A body that goes on to the next call after a failed one.
ContinueAfterFailure(stage, ok) ==
    CASE stage = "generate" -> "send"
      [] stage = "send" -> "save"
      [] stage = "save" -> "cleanup"

\* _process_batch, lines 112-133: the three calls run in this order inside one
\* try; an exception from any of them is caught at line 132 and ends the body.
NextStage(stage, ok) ==
    IF ~ok THEN "cleanup"
    ELSE CASE stage = "generate" -> "send"
           [] stage = "send" -> "save"
           [] stage = "save" -> "cleanup"

\* A body without the handler of line 132: the exception of a collaborator ends
\* the task.
PropagateFailure(raised) == IF raised THEN "failed" ELSE "finished"

\* How the timer task ends once _process_batch is over.  raised: a collaborator
\* raised.  The except of lines 132-133 logs and returns, so line 90 runs and the
\* coroutine returns normally in both cases.
Outcome(raised) == "finished"

\* ------------------------------------------------------------------ state

Init ==
    /\ pending_batches = << >>
    /\ tasks = << >>
    /\ running = NoFlush
    /\ calls = << >>
    /\ generated = [u \in Users |-> << >>]
    /\ accepted = [u \in Users |-> << >>]
    /\ supplied = [u \in Users |-> << >>]
    /\ gap = [u \in Users |-> Expired]
    /\ within = [u \in Users |-> TRUE]
    /\ apart = [u \in Users |-> TRUE]
    /\ db_users = << >>
    /\ db_messages = << >>
    /\ conversations = 0
    /\ background = << >>
    /\ responses = << >>
    /\ chat_calls = << >>

\* A loop that other callbacks can use while a flush is in progress.
LoopNeverHeld == TRUE

\* The flush body never suspends (no await between lines 71 and 90 yields to
\* the loop: _process_batch calls its collaborators synchronously), so nothing
\* else runs while it is in progress.
LoopFree == running = NoFlush

\* A callback is queued on the loop: a task to start, a cancellation to
\* deliver, or a sleep that has elapsed.
Ready(task) ==
    \/ task.state = "scheduled"
    \/ task.state = "sleeping" /\ (task.must_cancel \/ task.remaining = 0)

LoopIdle == LoopFree /\ \A t \in DOMAIN tasks : ~Ready(tasks[t])

\* ---------------------------------------------------------------- actions

\* MessageBatcher.add_message (no await inside: one step of the loop)
add_message(user_id, message, phone_number, conversation_id) ==
    /\ LoopFree
    /\ Len(tasks) < MaxAdds
    /\ LET existing == user_id \in DOMAIN pending_batches
           timer == Len(tasks) + 1
           after_cancel ==
               IF existing
               THEN [tasks EXCEPT ![pending_batches[user_id].timer] = Cancel(@)]
               ELSE tasks
           batch ==
               IF existing
               THEN AppendToBatch(pending_batches[user_id], message,
                                  phone_number, conversation_id, timer)
               ELSE NewBatch(message, phone_number, conversation_id, timer)
       IN /\ tasks' = Append(after_cancel, NewTask(user_id))
          /\ pending_batches' = Put(pending_batches, user_id, batch)
    /\ accepted' = [accepted EXCEPT ![user_id] = Append(@, message)]
    /\ supplied' = [supplied EXCEPT ![user_id] =
                       IF user_id \in DOMAIN pending_batches
                       THEN Append(@, <<phone_number, conversation_id>>)
                       ELSE << <<phone_number, conversation_id>> >>]
    /\ within' = [within EXCEPT ![user_id] =
                     @ /\ (accepted[user_id] = << >> \/ gap[user_id] < SLEEP_SECONDS)]
    /\ apart' = [apart EXCEPT ![user_id] =
                    @ /\ (accepted[user_id] = << >> \/ gap[user_id] > SLEEP_SECONDS)]
    /\ gap' = [gap EXCEPT ![user_id] = 0]
    /\ UNCHANGED <<running, calls, generated>>
    /\ UNCHANGED web_vars

\* first step of _wait_and_process: reaches `await asyncio.sleep(10)`
TimerStart(t) ==
    /\ LoopFree
    /\ tasks[t].state = "scheduled"
    /\ ~tasks[t].must_cancel
    /\ tasks' = [tasks EXCEPT ![t].state = "sleeping", ![t].remaining = SLEEP_SECONDS]
    /\ UNCHANGED <<pending_batches, running, calls, generated, accepted, supplied, gap, within, apart>>
    /\ UNCHANGED web_vars

\* CancelledError delivered to the task (lines 92-94, or before its first step)
TimerCancelled(t) ==
    /\ LoopFree
    /\ tasks[t].state \in {"scheduled", "sleeping"}
    /\ tasks[t].must_cancel
    /\ tasks' = [tasks EXCEPT ![t].state = "cancelled", ![t].remaining = 0]
    /\ pending_batches' = OnCancelled(pending_batches, tasks[t].user)
    /\ UNCHANGED <<running, calls, generated, accepted, supplied, gap, within, apart>>
    /\ UNCHANGED web_vars

\* one second passes while the loop is idle
Tick ==
    /\ LoopIdle
    /\ tasks' = [t \in DOMAIN tasks |->
                    IF tasks[t].state = "sleeping"
                    THEN [tasks[t] EXCEPT !.remaining = @ - 1]
                    ELSE tasks[t]]
    /\ gap' = [u \in Users |-> IF gap[u] < Expired THEN gap[u] + 1 ELSE Expired]
    /\ UNCHANGED <<pending_batches, running, calls, generated, accepted, supplied, within, apart>>
    /\ UNCHANGED web_vars

\* the sleep is over: lines 71-77 and the join of line 110.  The handler of
\* lines 95-97 is not modelled: _process_batch catches every Exception itself
\* (line 132), so nothing reaches it.
TimerFires(t) ==
    /\ LoopFree
    /\ tasks[t].state = "sleeping"
    /\ tasks[t].remaining = 0
    /\ ~tasks[t].must_cancel
    /\ LET user_id == tasks[t].user
           batch_data == Get(pending_batches, user_id)
       IN IF batch_data = None
          THEN /\ tasks' = [tasks EXCEPT ![t].state = "finished"]
               /\ UNCHANGED <<running, calls>>
          ELSE    /\ tasks' = [tasks EXCEPT ![t].state = "running", ![t].ran = TRUE]
                  /\ running' = [stage |-> "generate",
                                 task |-> t,
                                 user_id |-> user_id,
                                 messages |-> batch_data.messages,
                                 phone_number |-> batch_data.phone_number,
                                 conversation_id |-> batch_data.conversation_id,
                                 combined_message |-> Join(batch_data.messages),
                                 reply_message |-> ""]
                  /\ calls' = << >>
    /\ UNCHANGED <<pending_batches, generated, accepted, supplied, gap, within, apart>>
    /\ UNCHANGED web_vars

\* line 114: self._get_chatgpt_reply(combined_message, conversation_id)
GenerateReply(ok, reply) ==
    /\ running.stage = "generate"
    /\ calls' = Append(calls, [kind |-> "generate", user |-> running.user_id, ok |-> ok,
                               text |-> running.combined_message,
                               to |-> running.conversation_id])
    /\ generated' = [generated EXCEPT ![running.user_id] =
                        Append(@, [messages |-> running.messages,
                                   combined |-> running.combined_message,
                                   conversation_id |-> running.conversation_id,
                                   task |-> running.task])]
    /\ running' = [running EXCEPT !.stage = NextStage("generate", ok),
                                  !.reply_message = IF ok THEN reply ELSE @]
    /\ UNCHANGED <<pending_batches, tasks, accepted, supplied, gap, within, apart>>
    /\ UNCHANGED web_vars

\* line 117: self._send_whatsapp_message(phone_number, reply_message)
SendWhatsapp(ok) ==
    /\ running.stage = "send"
    /\ calls' = Append(calls, [kind |-> "send", user |-> running.user_id, ok |-> ok,
                               text |-> running.reply_message,
                               to |-> running.phone_number])
    /\ running' = [running EXCEPT !.stage = NextStage("send", ok)]
    /\ UNCHANGED <<pending_batches, tasks, generated, accepted, supplied, gap, within, apart>>
    /\ UNCHANGED web_vars

\* lines 122-130: self._save_message(...) under get_db_context()
SaveMessage(ok) ==
    /\ running.stage = "save"
    /\ calls' = Append(calls, [kind |-> "save", user |-> running.user_id, ok |-> ok,
                               text |-> running.reply_message,
                               to |-> running.phone_number])
    /\ running' = [running EXCEPT !.stage = NextStage("save", ok)]
    /\ UNCHANGED <<pending_batches, tasks, generated, accepted, supplied, gap, within, apart>>
    /\ UNCHANGED web_vars

\* _process_batch has returned (its own except swallowed any failure): line 90
FlushCleanup ==
    /\ running.stage = "cleanup"
    /\ pending_batches' = Cleanup(pending_batches, running.user_id)
    /\ tasks' = [tasks EXCEPT ![running.task].state =
                     Outcome(\E i \in DOMAIN calls : ~calls[i].ok)]
    /\ running' = NoFlush
    /\ supplied' = [supplied EXCEPT ![running.user_id] = << >>]
    /\ UNCHANGED <<calls, generated, accepted, gap, within, apart>>
    /\ UNCHANGED web_vars

Next ==
    \/ \E u \in Users, m \in Texts, c \in Callers : add_message(u, m, c[1], c[2])
    \/ \E t \in DOMAIN tasks : TimerStart(t)
    \/ \E t \in DOMAIN tasks : TimerCancelled(t)
    \/ Tick
    \/ \E t \in DOMAIN tasks : TimerFires(t)
    \/ \E ok \in BOOLEAN, reply \in Replies : GenerateReply(ok, reply)
    \/ \E ok \in BOOLEAN : SendWhatsapp(ok)
    \/ \E ok \in BOOLEAN : SaveMessage(ok)
    \/ FlushCleanup

Spec == Init /\ [][Next]_vars

\* The steps the event loop takes by itself: a created task is started (line 57),
\* a cancellation is delivered, time passes, an elapsed sleep resumes its task
\* (line 68) and a flush runs on to its end (lines 71-90).
Progress ==
    \/ \E t \in DOMAIN tasks : TimerStart(t)
    \/ \E t \in DOMAIN tasks : TimerCancelled(t)
    \/ Tick
    \/ \E t \in DOMAIN tasks : TimerFires(t)
    \/ \E ok \in BOOLEAN, reply \in Replies : GenerateReply(ok, reply)
    \/ \E ok \in BOOLEAN : SendWhatsapp(ok)
    \/ \E ok \in BOOLEAN : SaveMessage(ok)
    \/ FlushCleanup

\* _wait_and_process(user_id) started as a task by a caller other than
\* add_message: the task is recorded in no batch, so no add_message cancels it.
DirectWaitAndProcess(user_id) ==
    /\ LoopFree
    /\ Len(tasks) < MaxAdds
    /\ tasks' = Append(tasks, NewTask(user_id))
    /\ UNCHANGED <<pending_batches, running, calls, generated, accepted, supplied,
                   gap, within, apart>>
    /\ UNCHANGED web_vars

NextDirect ==
    \/ Next
    \/ \E u \in Users : DirectWaitAndProcess(u)

\* The coordinator with _wait_and_process also callable from outside
\* add_message.  In Spec every timer that is neither cancelled nor done is the
\* timer of its user's batch, so its lookup of line 71 always finds the batch.
SpecDirect == Init /\ [][NextDirect]_vars

\* The event loop keeps running: it never stops while a task is ready, a
\* sleep is pending or a flush is under way.  The callers of add_message are
\* under no obligation.
LiveSpec == Spec /\ WF_vars(Progress)

\* =================================================== src/app/main.py: /chat

\* Number of /chat requests explored.
MaxRequests == 2

Digits == {"0", "1", "2", "3", "4", "5", "6", "7", "8", "9"}
Whitespace == {" ", "\t"}

\* Form values of From and To.
PhoneA == <<"whatsapp:", "+", "5", "9", "5", "9", "8", "1", "5", "5", "5", "0", "0", "1">>
PhoneASpaced == <<" ", "+", "5", "9", "5", " ", "9", "8", "1", "5", "5", "5", "0", "0", "1", " ">>
PhoneB == <<"whatsapp:", "+", "1", "5", "5", "5">>
PhoneShort == <<"+", "5", "9", "5", "1", "2", "3">>
PhoneNoPlus == <<"whatsapp:", "5", "9", "5", "9", "8", "1">>
PhoneTab == <<"+", "1", "\t", "5">>
Froms == {PhoneA, PhoneASpaced, PhoneB, PhoneShort, PhoneNoPlus, PhoneTab}

\* To is optional: an absent or empty To is falsy in `if To`.
NoTo == << >>
Tos == {NoTo, PhoneB, PhoneNoPlus}

\* os.getenv("TWILIO_WHATSAPP_NUMBER")
whatsapp_number == <<"+", "1", "4", "1", "5">>

\* user.openai_conversation_id of a user without conversation (None).
NoConversation == 0

\* str.strip(): leading and trailing whitespace removed.
RECURSIVE StripLeft(_)
StripLeft(s) ==
    IF s # << >> /\ Head(s) \in Whitespace THEN StripLeft(Tail(s)) ELSE s

RECURSIVE StripRight(_)
StripRight(s) ==
    IF s # << >> /\ s[Len(s)] \in Whitespace
    THEN StripRight(SubSeq(s, 1, Len(s) - 1)) ELSE s

Strip(s) == StripRight(StripLeft(s))

\* str.replace(token, "")
Remove(s, token) == SelectSeq(s, LAMBDA c : c # token)

\* str.startswith(prefix)
StartsWith(s, prefix) ==
    Len(s) >= Len(prefix) /\ SubSeq(s, 1, Len(prefix)) = prefix

\* str.isdigit(): non-empty and every character a digit.
IsDigit(s) == s # << >> /\ \A i \in DOMAIN s : s[i] \in Digits

\* validate_phone_number, lines 42-71.  ok = FALSE: ValueError raised.
validate_phone_number(phone) ==
    LET normalized == Remove(Strip(Remove(phone, "whatsapp:")), " ")
        raised == [ok |-> FALSE, value |-> << >>]
    IN IF ~StartsWith(normalized, <<"+">>) THEN raised
       ELSE IF StartsWith(normalized, <<"+", "5", "9", "5">>)
            THEN IF Len(normalized) # 13 THEN raised
                 ELSE IF ~IsDigit(SubSeq(normalized, 5, Len(normalized))) THEN raised
                 ELSE [ok |-> TRUE, value |-> normalized]
            ELSE IF ~IsDigit(SubSeq(normalized, 2, Len(normalized))) THEN raised
                 ELSE [ok |-> TRUE, value |-> normalized]

\* db.query(User).filter(User.phone_number == phone_number): ids of the rows.
UsersWithPhone(table, phone_number) ==
    {i \in DOMAIN table : table[i].phone_number = phone_number}

\* .first(): the row with the least id.
First(ids) == CHOOSE i \in ids : \A j \in ids : i <= j

\* A call that inserts a row without looking for an existing one.
AlwaysCreateUser(table, phone_number) ==
    Append(table, [phone_number |-> phone_number,
                   openai_conversation_id |-> NoConversation])

\* get_or_create_user, lines 74-89: the table after the call.
get_or_create_user(table, phone_number) ==
    IF UsersWithPhone(table, phone_number) # {} THEN table
    ELSE Append(table, [phone_number |-> phone_number,
                        openai_conversation_id |-> NoConversation])

\* process_and_respond, lines 156-175: the three calls in one try; the except
\* of line 174 logs and ends the task.
RespondStage(stage, ok) ==
    IF ~ok THEN "done"
    ELSE CASE stage = "generate" -> "send"
           [] stage = "send" -> "save"
           [] stage = "save" -> "done"

\* A handler that validates From only.
RaisedBySenderOnly(sender, recipient) == ~sender.ok

\* lines 195-196 inside the try of line 193: a ValueError of either validation
\* leaves the body before get_or_create_user and reaches the except of line 228.
ValueErrorRaised(sender, recipient) == ~sender.ok \/ ~recipient.ok

\* POST /chat, lines 178-230.  conversation_ok: openai_client.conversations
\* .create() answers (asked only for a user without conversation).
chat(From, Body, To, conversation_ok) ==
    /\ Len(responses) < MaxRequests
    /\ LET sender == validate_phone_number(From)
           recipient == IF To # NoTo THEN validate_phone_number(To)
                        ELSE [ok |-> TRUE, value |-> whatsapp_number]
       IN IF ValueErrorRaised(sender, recipient)
          THEN \* lines 228-230
               /\ responses' = Append(responses, 400)
               /\ UNCHANGED <<db_users, db_messages, conversations, background, chat_calls>>
          ELSE LET table == get_or_create_user(db_users, sender.value)
                   id == First(UsersWithPhone(table, sender.value))
                   create == table[id].openai_conversation_id = NoConversation
               IN IF create /\ ~conversation_ok
                  THEN \* line 99 raises, no handler: the user row stays committed
                       /\ db_users' = table
                       /\ responses' = Append(responses, 500)
                       /\ UNCHANGED <<db_messages, conversations, background, chat_calls>>
                  ELSE LET conversation_id ==
                               IF create THEN conversations + 1
                               ELSE table[id].openai_conversation_id
                       IN /\ conversations' = IF create THEN conversations + 1
                                              ELSE conversations
                          /\ db_users' = [table EXCEPT ![id].openai_conversation_id =
                                                           conversation_id]
                          /\ db_messages' = Append(db_messages,
                                 [recipient |-> recipient.value,
                                  sender |-> sender.value,
                                  message_text |-> Body,
                                  direction |-> "incoming",
                                  user_id |-> id])
                          /\ background' = Append(background,
                                 [recipient |-> sender.value,
                                  message |-> Body,
                                  conversation_id |-> conversation_id,
                                  user_id |-> id,
                                  stage |-> "generate",
                                  reply_message |-> ""])
                          /\ chat_calls' = Append(chat_calls, << >>)
                          /\ responses' = Append(responses, 200)
    /\ UNCHANGED batcher_vars

\* line 157: get_chatgpt_reply(message, conversation_id)
get_chatgpt_reply(i, ok, reply) ==
    /\ background[i].stage = "generate"
    /\ chat_calls' = [chat_calls EXCEPT ![i] = Append(@, [kind |-> "generate", ok |-> ok,
                                         text |-> background[i].message,
                                         to |-> background[i].conversation_id])]
    /\ background' = [background EXCEPT
                          ![i].stage = RespondStage("generate", ok),
                          ![i].reply_message = IF ok THEN reply ELSE @]
    /\ UNCHANGED <<db_users, db_messages, conversations, responses>>
    /\ UNCHANGED batcher_vars

\* line 160: send_whatsapp_message(recipient, reply_message)
send_whatsapp_message(i, ok) ==
    /\ background[i].stage = "send"
    /\ chat_calls' = [chat_calls EXCEPT ![i] = Append(@, [kind |-> "send", ok |-> ok,
                                         text |-> background[i].reply_message,
                                         to |-> background[i].recipient])]
    /\ background' = [background EXCEPT ![i].stage = RespondStage("send", ok)]
    /\ UNCHANGED <<db_users, db_messages, conversations, responses>>
    /\ UNCHANGED batcher_vars

\* lines 164-172: save_message(..., direction=outgoing) inside get_db_context
save_message(i, ok) ==
    /\ background[i].stage = "save"
    /\ chat_calls' = [chat_calls EXCEPT ![i] = Append(@, [kind |-> "save", ok |-> ok,
                                         text |-> background[i].reply_message,
                                         to |-> background[i].recipient])]
    /\ db_messages' = IF ok
                      THEN Append(db_messages,
                               [recipient |-> background[i].recipient,
                                sender |-> whatsapp_number,
                                message_text |-> background[i].reply_message,
                                direction |-> "outgoing",
                                user_id |-> background[i].user_id])
                      ELSE db_messages
    /\ background' = [background EXCEPT ![i].stage = RespondStage("save", ok)]
    /\ UNCHANGED <<db_users, conversations, responses>>
    /\ UNCHANGED batcher_vars

NextChat ==
    \/ \E From \in Froms, Body \in Texts, To \in Tos, conversation_ok \in BOOLEAN :
           chat(From, Body, To, conversation_ok)
    \/ \E i \in DOMAIN background, ok \in BOOLEAN, reply \in Replies :
           get_chatgpt_reply(i, ok, reply)
    \/ \E i \in DOMAIN background, ok \in BOOLEAN : send_whatsapp_message(i, ok)
    \/ \E i \in DOMAIN background, ok \in BOOLEAN : save_message(i, ok)

SpecChat == Init /\ [][NextChat]_vars

TypeOK ==
    /\ DOMAIN pending_batches \subseteq Users
    /\ Len(tasks) <= MaxAdds
    /\ \A t \in DOMAIN tasks : tasks[t].remaining \in 0..SLEEP_SECONDS
    /\ \A u \in Users : gap[u] \in 0..Expired

\* ------------------------------------------------------- notions of the claims

\* Newline-join of a sequence of texts, built from the left.
NewlineJoined(texts) ==
    LET step[i \in 0..Len(texts)] ==
            IF i = 0 THEN ""
            ELSE IF i = 1 THEN texts[1]
            ELSE step[i - 1] \o "\n" \o texts[i]
    IN step[Len(texts)]

\* The messages of the first k flushes of user u, in flush order.
FlushedUpTo(u, k) ==
    LET cat[i \in 0..k] ==
            IF i = 0 THEN << >> ELSE cat[i - 1] \o generated[u][i].messages
    IN cat[k]

\* Every message of u that some flush has passed to the Reply Generator.
Flushed(u) == FlushedUpTo(u, Len(generated[u]))

\* The messages of u that wait in the map for a flush that has not yet
\* invoked the Reply Generator.
Waiting(u) ==
    IF u \in DOMAIN pending_batches
       /\ ~(running # NoFlush /\ running.user_id = u /\ running.stage # "generate")
    THEN pending_batches[u].messages
    ELSE << >>

\* The messages of u accepted after the last flush that invoked the generator.
SinceLastFlush(u) ==
    SubSeq(accepted[u], Len(Flushed(u)) + 1, Len(accepted[u]))

TasksOf(u) == {t \in DOMAIN tasks : tasks[t].user = u}

\* The most recently created timer task of u (0 when u never had one).
CurrentTimer(u) ==
    IF TasksOf(u) = {} THEN 0
    ELSE CHOOSE t \in TasksOf(u) : \A o \in TasksOf(u) : o <= t

\* A timer that is neither cancelled nor fired.
Live(task) == task.state \in {"scheduled", "sleeping"} /\ ~task.must_cancel

Flushing == running # NoFlush

\* The flush that ran last has ended, and ended in a downstream failure.
LastFlushFailed(u) ==
    /\ ~Flushing
    /\ calls # << >>
    /\ calls[1].user = u
    /\ ~calls[Len(calls)].ok

\* ------------------------------------------------------------------ claims

\* C1: when every add_message of a user arrived strictly within the debounce
\* window of the previous one, at most one flush has happened for that user, it
\* has happened once the window after the last message is over, and the text it
\* passed to the Reply Generator is the newline-join of all the accepted texts
\* in arrival order.
C1_OneFlushJoinsBurst ==
    \A u \in Users :
        within[u] =>
            /\ Len(generated[u]) <= 1
            /\ Len(generated[u]) = 1 =>
                   generated[u][1].combined = NewlineJoined(accepted[u])
            /\ (accepted[u] # << >> /\ gap[u] > SLEEP_SECONDS) =>
                   Len(generated[u]) = 1

C1_Witness ==
    \E u \in Users :
        /\ within[u]
        /\ accepted[u] = <<"B", "A">>
        /\ Len(generated[u]) = 1
        /\ generated[u][1].combined = "B\nA"
        /\ ~Flushing

\* C2: no message is lost or flushed twice, and none is appended mid-flush: the
\* texts a user had accepted are exactly the texts of the flushes so far followed
\* by the texts waiting in the map, in arrival order, and while a flush runs the
\* batch in the map still holds exactly the messages the flush took.
C2_NoMessageLost ==
    /\ \A u \in Users : accepted[u] = Flushed(u) \o Waiting(u)
    /\ Flushing =>
           /\ running.user_id \in DOMAIN pending_batches
           /\ pending_batches[running.user_id].messages = running.messages

C2_Witness ==
    \E u \in Users :
        /\ Len(generated[u]) = 1
        /\ Len(accepted[u]) = 2
        /\ u \in DOMAIN pending_batches
        /\ pending_batches[u].messages = <<accepted[u][2]>>
        /\ generated[u][1].messages = <<accepted[u][1]>>

\* C3: a timer replaced by a later add_message never runs the flush body, also
\* when its sleep had already elapsed when it was cancelled: the flush body is
\* only ever run by the user's most recently created timer, no timer that was
\* cancelled has run it, and every Reply Generator invocation of a user comes
\* from a different timer.
C3_ReplacedTimerNeverFlushes ==
    /\ Flushing => running.task = CurrentTimer(running.user_id)
    /\ \A t \in DOMAIN tasks : tasks[t].must_cancel => ~tasks[t].ran
    /\ \A u \in Users : \A i, j \in DOMAIN generated[u] :
           /\ tasks[generated[u][i].task].ran
           /\ i # j => generated[u][i].task # generated[u][j].task

\* The second message came when the first timer's sleep had just elapsed, was
\* appended all the same, and one flush took both.
C3_Witness ==
    \E u \in Users :
        /\ ~within[u] /\ ~apart[u]
        /\ Len(accepted[u]) = 2
        /\ Len(generated[u]) = 1
        /\ generated[u][1].messages = accepted[u]
        /\ Cardinality({t \in TasksOf(u) : tasks[t].state = "cancelled"}) = 1
        /\ ~Flushing

C5_FailedFlushRemovesBatch ==
    \A u \in Users :
        LastFlushFailed(u) =>
            IF SinceLastFlush(u) = << >>
            THEN u \notin DOMAIN pending_batches
            ELSE /\ u \in DOMAIN pending_batches
                 /\ pending_batches[u].messages = SinceLastFlush(u)

C5_Witness ==
    \E u \in Users :
        /\ LastFlushFailed(u)
        /\ calls[Len(calls)].kind = "send"
        /\ Len(accepted[u]) = 2
        /\ u \in DOMAIN pending_batches
        /\ pending_batches[u].messages = <<accepted[u][2]>>

\* C6: the destination and conversation context of a batch are the ones the
\* add_message call that created it supplied, whatever later calls supplied, and
\* the flush hands exactly those to the Reply Generator, the Delivery Sender and
\* the Persistence Sink.
C6_FirstWriterWins ==
    /\ \A u \in DOMAIN pending_batches :
           /\ pending_batches[u].phone_number = supplied[u][1][1]
           /\ pending_batches[u].conversation_id = supplied[u][1][2]
    /\ Flushing =>
           /\ running.phone_number = supplied[running.user_id][1][1]
           /\ running.conversation_id = supplied[running.user_id][1][2]
           /\ \A i \in DOMAIN calls :
                  calls[i].to = IF calls[i].kind = "generate"
                                THEN supplied[running.user_id][1][2]
                                ELSE supplied[running.user_id][1][1]

C6_Witness ==
    /\ Flushing
    /\ running.stage = "cleanup"
    /\ Len(calls) = 3
    /\ Len(supplied[running.user_id]) = 2
    /\ supplied[running.user_id][2][1] # supplied[running.user_id][1][1]
    /\ supplied[running.user_id][2][2] # supplied[running.user_id][1][2]
    /\ calls[1].to = supplied[running.user_id][1][2]
    /\ calls[2].to = supplied[running.user_id][1][1]

\* The messages of u taken by flushes that have run to their end.
RECURSIVE FinishedCount(_, _)
FinishedCount(u, k) ==
    IF k = 0 THEN 0
    ELSE FinishedCount(u, k - 1)
         + (IF tasks[generated[u][k].task].state = "finished"
            THEN Len(generated[u][k].messages) ELSE 0)

\* u has a message that was accepted and whose flush has not finished.
HasUnflushed(u) == Len(accepted[u]) > FinishedCount(u, Len(generated[u]))

C8_OneLiveTimer ==
    \A u \in Users :
        /\ Cardinality({t \in TasksOf(u) : Live(tasks[t])}) <= 1
        /\ \A t \in TasksOf(u) :
               Live(tasks[t]) =>
                   u \in DOMAIN pending_batches /\ pending_batches[u].timer = t
        /\ u \in DOMAIN pending_batches =>
               pending_batches[u].timer = CurrentTimer(u)

\* The old timer has been cancelled but has not yet seen its CancelledError,
\* and the new one is already scheduled.
C8_Witness ==
    \E u \in Users : \E t1, t2 \in TasksOf(u) :
        /\ t1 < t2
        /\ tasks[t1].state = "sleeping" /\ tasks[t1].must_cancel
        /\ Live(tasks[t2])
        /\ pending_batches[u].timer = t2

\* C9 as stated: while a flush is in progress the map holds no entry for its user.
C9_DetachedBeforeProcessing ==
    Flushing => running.user_id \notin DOMAIN pending_batches

\* C9, amended: the user's entry stays in the map, unchanged, from the moment
\* the timer fires through all the downstream calls, and the step that ends
\* the flush (_cleanup) removes it, whether those calls succeeded or failed.
C9_EntryRemovedByCleanup ==
    [][/\ (~Flushing /\ Flushing') =>
              running'.user_id \in DOMAIN pending_batches'
       /\ (Flushing /\ Flushing') =>
              /\ running'.user_id = running.user_id
              /\ running.user_id \in DOMAIN pending_batches'
              /\ pending_batches' = pending_batches
       /\ (Flushing /\ ~Flushing') =>
              /\ running.stage = "cleanup"
              /\ running.user_id \in DOMAIN pending_batches
              /\ running.user_id \notin DOMAIN pending_batches'
              /\ \A v \in DOMAIN pending_batches \ {running.user_id} :
                     v \in DOMAIN pending_batches'
      ]_vars

\* The downstream processing is over, with a failure, and the entry is still there.
C9_Witness ==
    /\ Flushing
    /\ running.stage = "cleanup"
    /\ Len(calls) = 3
    /\ ~calls[3].ok
    /\ running.user_id \in DOMAIN pending_batches

\* C10: the collaborator calls of one flush are, in order, Reply Generator,
\* Delivery Sender, Persistence Sink, each at most once; a call is made only
\* when every call before it succeeded, the sender and the sink get the
\* generator's reply, and after a failed flush the flushed messages are not in
\* the map again.
C10_CollaboratorOrder ==
    LET order == <<"generate", "send", "save">> IN
    /\ Len(calls) <= 3
    /\ \A i \in DOMAIN calls :
           /\ calls[i].kind = order[i]
           /\ i < Len(calls) => calls[i].ok
           /\ i > 1 => calls[i].text \in Replies
    /\ Flushing =>
           /\ \A i \in DOMAIN calls : i > 1 => calls[i].text = running.reply_message
           /\ running.stage # "cleanup" =>
                  /\ \A i \in DOMAIN calls : calls[i].ok
                  /\ running.stage = order[Len(calls) + 1]
    /\ \A u \in Users :
           (LastFlushFailed(u) /\ u \in DOMAIN pending_batches) =>
               Len(pending_batches[u].messages) + Len(Flushed(u)) <= Len(accepted[u])

C10_Witness ==
    \E u \in Users :
        /\ LastFlushFailed(u)
        /\ Len(calls) = 2
        /\ calls[1].kind = "generate" /\ calls[1].ok
        /\ calls[2].kind = "send"
        /\ u \notin DOMAIN pending_batches

\* C11: the step in which a cancelled timer ends changes nothing but that
\* timer: the map (the user's batch with the messages gathered so far), the
\* collaborator calls and the flush in progress stay as they were, and a timer
\* that was cancelled has never run the flush body.
C11_CancelOnlyStopsTimer ==
    [][\A t \in DOMAIN tasks :
           (tasks[t].state # "cancelled" /\ tasks'[t].state = "cancelled") =>
               /\ tasks[t].must_cancel
               /\ ~tasks'[t].ran
               /\ pending_batches' = pending_batches
               /\ calls' = calls
               /\ generated' = generated
               /\ running' = running
               /\ \A o \in DOMAIN tasks \ {t} : tasks'[o] = tasks[o]
      ]_vars

\* The first timer has ended cancelled; both messages are still in the map and
\* no collaborator has been called.
C11_Witness ==
    \E u \in Users : \E t \in TasksOf(u) :
        /\ tasks[t].state = "cancelled"
        /\ u \in DOMAIN pending_batches
        /\ Len(pending_batches[u].messages) = 2
        /\ pending_batches[u].messages = accepted[u]
        /\ generated[u] = << >>
        /\ calls = << >>

\* C12: while a flush of one user is in progress, every other user can still
\* take steps: an add_message for them can run, and a timer of theirs whose
\* sleep has elapsed can fire.
C12_OtherUsersNotBlocked ==
    \A u \in Users :
        (Flushing /\ running.user_id # u) =>
            /\ Len(tasks) < MaxAdds =>
                   ENABLED (\E m \in Texts, c \in Callers : add_message(u, m, c[1], c[2]))
            /\ \A t \in TasksOf(u) :
                   (tasks[t].state = "sleeping" /\ tasks[t].remaining = 0
                    /\ ~tasks[t].must_cancel) => ENABLED TimerFires(t)

\* C13: a flush happens only when a full debounce delay has passed since the
\* user's latest add_message: while a flush of a user runs, and whenever the
\* Reply Generator has just been called for them, at least SLEEP_SECONDS have
\* passed since their last message; and every add_message restarts the delay,
\* so the user's pending timer always has the delay minus the time since the
\* last message left to sleep.
C13_FullDelaySinceLastMessage ==
    /\ Flushing => gap[running.user_id] >= SLEEP_SECONDS
    /\ \A u \in Users :
           (u \in DOMAIN pending_batches
            /\ tasks[pending_batches[u].timer].state = "sleeping"
            /\ ~tasks[pending_batches[u].timer].must_cancel) =>
               tasks[pending_batches[u].timer].remaining + gap[u] = SLEEP_SECONDS
    /\ \A u \in Users :
           (generated[u] # << >> /\ Len(Flushed(u)) = Len(accepted[u])) =>
               gap[u] >= SLEEP_SECONDS

\* Two messages inside one window, and the flush runs a full delay after the
\* second of them.
C13_Witness ==
    /\ Flushing
    /\ within[running.user_id]
    /\ Len(accepted[running.user_id]) = 2
    /\ running.messages = accepted[running.user_id]
    /\ gap[running.user_id] = SLEEP_SECONDS
    /\ tasks[1].state = "cancelled"

\* C14: the delay a timer sleeps is the configured Settings.debounce_time, and
\* with debounce_time = 0 no timer is ever left sleeping for any time and every
\* flush holds a single message.
C14_ConfiguredDelay ==
    /\ \A t \in DOMAIN tasks :
           tasks[t].state = "sleeping" => tasks[t].remaining <= debounce_time
    /\ debounce_time = 0 =>
           \A u \in Users : \A k \in DOMAIN generated[u] :
               Len(generated[u][k].messages) = 1

\* The step is taken on behalf of user u: an add_message of u, or a step of a
\* flush of u.
ActsFor(u) ==
    \/ accepted'[u] # accepted[u]
    \/ Flushing /\ running.user_id = u
    \/ Flushing' /\ running'.user_id = u

\* The step leaves v's batch and v's timers as they were.
Untouched(v) ==
    /\ v \in DOMAIN pending_batches <=> v \in DOMAIN pending_batches'
    /\ v \in DOMAIN pending_batches => pending_batches'[v] = pending_batches[v]
    /\ \A t \in DOMAIN tasks' :
           tasks'[t].user = v => t \in DOMAIN tasks /\ tasks'[t] = tasks[t]

\* C16: a step taken for user u (an add_message of u, or any step of a flush of
\* u, failed or not) leaves the batch and the timers of every other user as
\* they were.
C16_OtherUsersUntouched ==
    [][\A u \in Users : ActsFor(u) => \A v \in Users \ {u} : Untouched(v)]_vars

\* A flush of u has failed and ended while v's batch waits in the map.
C16_Witness ==
    \E u, v \in Users :
        /\ u # v
        /\ LastFlushFailed(u)
        /\ u \notin DOMAIN pending_batches
        /\ v \in DOMAIN pending_batches
        /\ pending_batches[v].messages = accepted[v]
        /\ Live(tasks[pending_batches[v].timer])

\* C17: the step of an add_message calls no collaborator and starts no flush,
\* and leaves the user's batch in the map with the new message as its last
\* element and a newly created, scheduled timer recorded in it.
C17_AddOnlyBookkeeping ==
    [][\A u \in Users :
           accepted'[u] # accepted[u] =>
               /\ calls' = calls
               /\ generated' = generated
               /\ running' = running /\ ~Flushing
               /\ u \in DOMAIN pending_batches'
               /\ LET batch == pending_batches'[u] IN
                  /\ batch.messages[Len(batch.messages)] = accepted'[u][Len(accepted'[u])]
                  /\ Len(batch.messages) =
                         (IF u \in DOMAIN pending_batches
                          THEN Len(pending_batches[u].messages) ELSE 0) + 1
                  /\ batch.timer = Len(tasks) + 1
                  /\ Len(tasks') = Len(tasks) + 1
                  /\ tasks'[batch.timer].user = u
                  /\ Live(tasks'[batch.timer])
      ]_vars

\* add_message has just returned for a user who already had a batch.
C17_Witness ==
    \E u \in Users :
        /\ u \in DOMAIN pending_batches
        /\ pending_batches[u].messages = <<"A", "B">>
        /\ accepted[u] = <<"A", "B">>
        /\ gap[u] = 0
        /\ tasks[pending_batches[u].timer].state = "scheduled"
        /\ calls = << >>

\* C19: a failure of the Reply Generator, the Delivery Sender or the Persistence
\* Sink never ends the timer task with an error and never reaches a caller of
\* add_message: every ended task has returned normally or was cancelled, a
\* cancelled one only by the cancel of a later add_message, and after a failed
\* flush add_message is accepted as before.
C19_FailuresContained ==
    /\ \A t \in DOMAIN tasks :
           /\ tasks[t].state \in {"scheduled", "sleeping", "running",
                                  "finished", "cancelled"}
           /\ tasks[t].state = "cancelled" => tasks[t].must_cancel /\ ~tasks[t].ran
    /\ \A u \in Users :
           (LastFlushFailed(u) /\ Len(tasks) < MaxAdds) =>
               ENABLED (\E m \in Texts, c \in Callers : add_message(u, m, c[1], c[2]))

\* A task whose flush failed at one of the three collaborators has ended.
C19_Witness ==
    \E u \in Users, t \in DOMAIN tasks :
        /\ LastFlushFailed(u)
        /\ tasks[t].user = u
        /\ tasks[t].ran
        /\ tasks[t].state = "finished"
        /\ calls[Len(calls)].kind = "generate"
        /\ Len(tasks) < MaxAdds

\* C20: under a running event loop every entry of the map is eventually removed,
\* and from some point on the map is empty and every accepted message of every
\* user has been passed to the Reply Generator.
C20_EventuallyFlushed ==
    /\ \A u \in Users : (u \in DOMAIN pending_batches) ~> (u \notin DOMAIN pending_batches)
    /\ <>[](/\ pending_batches = << >>
            /\ ~Flushing
            /\ \A u \in Users : Flushed(u) = accepted[u])

\* The arrivals have stopped, the last batch has been flushed and removed.
C20_Witness ==
    /\ Len(tasks) = MaxAdds
    /\ pending_batches = << >>
    /\ ~Flushing
    /\ \E u \in Users :
           /\ Len(accepted[u]) = MaxAdds
           /\ Len(generated[u]) = 1
           /\ Flushed(u) = accepted[u]

\* C18: a timer whose sleep has ended and that finds no entry for its user in
\* the map returns at once: it calls no collaborator, starts no flush, leaves
\* the map as it was and ends normally.
C18_MissingEntryNoOp ==
    [][\A t \in DOMAIN tasks :
           (/\ tasks[t].state = "sleeping"
            /\ tasks'[t].state \notin {"sleeping", "cancelled"}
            /\ tasks[t].user \notin DOMAIN pending_batches) =>
               /\ tasks'[t].state = "finished"
               /\ ~tasks'[t].ran
               /\ pending_batches' = pending_batches
               /\ calls' = calls
               /\ generated' = generated
               /\ running' = running
      ]_vars

\* A timer has fired after another task had flushed and removed its user's
\* batch.
C18_Witness ==
    \E t \in DOMAIN tasks :
        /\ tasks[t].state = "finished"
        /\ ~tasks[t].ran
        /\ ~tasks[t].must_cancel
        /\ tasks[t].user \notin DOMAIN pending_batches
        /\ Len(generated[tasks[t].user]) = 1
        /\ ~Flushing

\* The bodies of the incoming messages persisted for user u, in order.
RECURSIVE IncomingOf(_, _)
IncomingOf(u, k) ==
    IF k = 0 THEN << >>
    ELSE IF db_messages[k].direction = "incoming" /\ db_messages[k].user_id = u
         THEN Append(IncomingOf(u, k - 1), db_messages[k].message_text)
         ELSE IncomingOf(u, k - 1)

\* Number of requests answered with the given status.
Answered(status) == Cardinality({i \in DOMAIN responses : responses[i] = status})

\* C15: every accepted /chat request has persisted its incoming message and
\* handed the body to add_message under the user's id, and no reply is
\* produced per inbound message: no process_and_respond task is scheduled and
\* the collaborators are invoked by flushes only.
C15_ChatFeedsCoordinator ==
    /\ Answered(200) = Cardinality({k \in DOMAIN db_messages :
                                        db_messages[k].direction = "incoming"})
    /\ \A u \in DOMAIN db_users :
           u \in Users /\ accepted[u] = IncomingOf(u, Len(db_messages))
    /\ background = << >>
    /\ chat_calls = << >>

\* C21: a /chat request whose From, or whose supplied To, fails validation is
\* answered 400 and changes nothing: no user and no conversation is created,
\* no message is persisted and no process_and_respond task is scheduled.
C21_InvalidPhoneRejected ==
    [][\A From \in Froms, To \in Tos, Body \in Texts, conversation_ok \in BOOLEAN :
           (/\ chat(From, Body, To, conversation_ok)
            /\ \/ ~validate_phone_number(From).ok
               \/ To # NoTo /\ ~validate_phone_number(To).ok) =>
               /\ responses' = Append(responses, 400)
               /\ db_users' = db_users
               /\ conversations' = conversations
               /\ db_messages' = db_messages
               /\ background' = background
               /\ chat_calls' = chat_calls
      ]_vars

\* A request has been rejected after an accepted one: the user, the
\* conversation, the message and the task of the first request are all there is.
C21_Witness ==
    /\ responses = <<200, 400>>
    /\ Len(db_users) = 1
    /\ conversations = 1
    /\ Len(db_messages) = 1
    /\ Len(background) = 1
    /\ background[1].stage = "generate"

\* The requests persisted or scheduled so far resolve each phone number to the
\* one user row that holds it, and carry that user's conversation.
ResolvedToOneUser ==
    /\ \A i, j \in DOMAIN db_users :
           db_users[i].phone_number = db_users[j].phone_number => i = j
    /\ \A k \in DOMAIN db_messages :
           db_messages[k].direction = "incoming" =>
               /\ db_messages[k].user_id \in DOMAIN db_users
               /\ db_users[db_messages[k].user_id].phone_number = db_messages[k].sender
    /\ \A k \in DOMAIN background :
           /\ background[k].user_id \in DOMAIN db_users
           /\ db_users[background[k].user_id].phone_number = background[k].recipient
           /\ background[k].conversation_id # NoConversation
           /\ background[k].conversation_id =
                  db_users[background[k].user_id].openai_conversation_id

\* A step keeps every user row, never changes a phone number or an assigned
\* conversation, and creates a conversation only for a user that had none.
ConversationKept ==
    /\ \A i \in DOMAIN db_users :
           /\ i \in DOMAIN db_users'
           /\ db_users'[i].phone_number = db_users[i].phone_number
           /\ db_users[i].openai_conversation_id # NoConversation =>
                  db_users'[i].openai_conversation_id = db_users[i].openai_conversation_id
    /\ conversations' # conversations =>
           /\ conversations' = conversations + 1
           /\ \E i \in DOMAIN db_users' :
                  /\ db_users'[i].openai_conversation_id = conversations'
                  /\ i \in DOMAIN db_users =>
                         db_users[i].openai_conversation_id = NoConversation

\* C22: after any sequence of /chat requests there is at most one user per
\* normalized phone number, every request from a number is recorded under that
\* user's id, and an assigned conversation id is reused unchanged by every
\* later request; a conversation is created only for a user that has none.
C22_GetOrCreateIdempotent ==
    /\ []ResolvedToOneUser
    /\ [][ConversationKept]_vars

\* Two accepted requests from one number, written in two ways, have used one
\* user row and one conversation.
C22_Witness ==
    /\ responses = <<200, 200>>
    /\ Len(db_users) = 1
    /\ db_users[1].phone_number = validate_phone_number(PhoneA).value
    /\ validate_phone_number(PhoneASpaced).value = validate_phone_number(PhoneA).value
    /\ conversations = 1
    /\ db_users[1].openai_conversation_id = 1
    /\ Len(background) = 2
    /\ background[1].conversation_id = 1
    /\ background[2].conversation_id = 1
    /\ background[1].user_id = 1
    /\ background[2].user_id = 1
====
